---------------------------- MODULE Spec2Model ----------------------------
(***************************************************************************)
(* Model of the rk-av recorder: main, the statistics reporter, the         *)
(* single-shot duration timer, the video worker (capture -> encode ->      *)
(* sink) and the audio worker (capture -> file), all sharing g_stop and    *)
(* g_stats (src/src/main.c), with the encoder's encode call                *)
(* (src/src/encoder_mpp.c) and the sink (src/src/sink.c).                  *)
(***************************************************************************)
EXTENDS Integers, Sequences, FiniteSets, TLC

(***************************************************************************)
(* Bounds.  The C integer widths are scaled down: unsigned int / uint32_t  *)
(* is UIntBits wide, size_t is SizeBits wide.                              *)
(***************************************************************************)
UIntBits == 16
SizeBits == 20
MaxFrames == 2
MaxSeqFrames == 3
MaxReads == 2
NumBufs == 2
MaxLen == 3
MaxSinkWrites == 3
MaxCap == 3

UIntMod == 2 ^ UIntBits
IntMax == 2 ^ (UIntBits - 1) - 1
SizeMod == 2 ^ SizeBits
SizeMax == SizeMod - 1

VARIABLES
  g_stop,    \* main.c:17  static volatile sig_atomic_t g_stop
  g_stats,   \* main.c:18  static AvStats g_stats
  cfg,       \* main.c:269 AppConfig cfg: the values the command line asks for
  main_pc,   \* position of main()
  s_pc,      \* position of stats_thread
  t_pc,      \* position of timer_thread
  v_pc,      \* position of video_thread
  a_pc,      \* position of audio_thread
  vid,       \* locals of video_thread: cap, enc, sink, last_seq, has_seq, ...
  aud,       \* locals of audio_thread: ac, af, buf, total_bytes, chunk, written
  obs        \* history of what the environment delivered and what was persisted

vars == <<g_stop, g_stats, cfg, main_pc, s_pc, t_pc, v_pc, a_pc, vid, aud, obs>>

(***************************************************************************)
(* C arithmetic.                                                           *)
(***************************************************************************)
\* unsigned int / uint32_t arithmetic wraps modulo 2^width
U32(x) == x % UIntMod

\* (int) of an unsigned value: two's complement reinterpretation
ToInt(u) == IF u > IntMax THEN u - UIntMod ELSE u

\* size_t arithmetic wraps modulo 2^width
SizeT(x) == x % SizeMod

(***************************************************************************)
(* Statistics aggregator (av_stats.c is not part of the sources at hand).  *)
(***************************************************************************)
av_stats_init == [video_frames |-> 0, audio_chunks |-> 0, enc_bytes |-> 0, drop |-> 0]

av_stats_add_drop(s, n) == [s EXCEPT !.drop = @ + n]

av_stats_inc_video_frame(s) == [s EXCEPT !.video_frames = @ + 1]

av_stats_add_enc_bytes(s, n) == [s EXCEPT !.enc_bytes = @ + n]

av_stats_inc_audio_chunk(s) == [s EXCEPT !.audio_chunks = @ + 1]

(***************************************************************************)
(* Sink (sink.c).  A sink is [type, file_fp]; fw is what fwrite returns.   *)
(***************************************************************************)
\* enc_sink_init: memset 0, type set
enc_sink_init(type) == [type |-> type, file_fp |-> FALSE]

\* enc_sink_open: fopen_ok is whether fopen succeeds; result [ret, sink]
enc_sink_open(sink, fopen_ok) ==
  CASE sink.type = "FILE" ->
         IF fopen_ok THEN [ret |-> 0, sink |-> [sink EXCEPT !.file_fp = TRUE]]
                     ELSE [ret |-> -1, sink |-> sink]
    [] sink.type = "PIPE_FFMPEG" -> [ret |-> -1, sink |-> sink]
    [] OTHER -> [ret |-> 0, sink |-> sink]

EncSinkWriteNoShortCheck(sink, len, fw) ==
  IF len = 0 THEN [ret |-> -1, persisted |-> 0]
  ELSE IF sink.type = "FILE"
       THEN IF ~sink.file_fp THEN [ret |-> -1, persisted |-> 0]
            ELSE [ret |-> 0, persisted |-> fw]
       ELSE [ret |-> 0, persisted |-> 0]

\* enc_sink_write: result [ret, persisted]; persisted = bytes that reached the file
enc_sink_write(sink, len, fw) ==
  IF len = 0 THEN [ret |-> -1, persisted |-> 0]
  ELSE IF sink.type = "FILE"
       THEN IF ~sink.file_fp THEN [ret |-> -1, persisted |-> 0]
            ELSE IF fw # len THEN [ret |-> -1, persisted |-> fw]
                 ELSE [ret |-> 0, persisted |-> fw]
       ELSE [ret |-> 0, persisted |-> 0]

\* enc_sink_close
enc_sink_close(sink) == [sink EXCEPT !.file_fp = FALSE]

(***************************************************************************)
(* Encoder (encoder_mpp.c, RK_MPP_AVAILABLE branch).                       *)
(* dev is what the device does on this call:                               *)
(*   "frame_init_fail", "put_fail"  explicit device failures               *)
(*   "get_fail"                     encode_get_packet fails: no packet     *)
(*   "pkt_null"                     no packet returned                     *)
(*   "pkt"                          a packet of pkt_len bytes              *)
(* Result [ret, out_bytes, req, persisted]: req is the length handed to    *)
(* the sink (0 when the sink is not called).                               *)
(***************************************************************************)
DevOutcomes == {"frame_init_fail", "put_fail", "get_fail", "pkt_null", "pkt"}

\* An encoder is [ctx, buf_grp, frm_buf]: which device resources it holds.
EncNone == [ctx |-> FALSE, buf_grp |-> FALSE, frm_buf |-> FALSE]

\* what the device does during encoder_mpp_init: the step that fails, or "ok"
InitOutcomes ==
  {"create_fail", "init_fail", "grp_fail", "buf_fail", "getcfg_fail", "setcfg_fail", "ok"}

\* encoder_mpp_init (encoder_mpp.c:52-143): result [ret, enc]
encoder_mpp_init(step) ==
  CASE step = "create_fail" -> [ret |-> -1, enc |-> EncNone]
    [] step = "init_fail"   -> [ret |-> -1, enc |-> EncNone]
    [] step = "grp_fail"    -> [ret |-> -1, enc |-> EncNone]
    [] step = "buf_fail"    -> [ret |-> -1, enc |-> EncNone]
    [] step = "getcfg_fail" ->
         [ret |-> -1, enc |-> [ctx |-> TRUE, buf_grp |-> TRUE, frm_buf |-> TRUE]]
    [] step = "setcfg_fail" ->
         [ret |-> -1, enc |-> [ctx |-> TRUE, buf_grp |-> TRUE, frm_buf |-> TRUE]]
    [] OTHER -> [ret |-> 0, enc |-> [ctx |-> TRUE, buf_grp |-> TRUE, frm_buf |-> TRUE]]

\* encoder_mpp_deinit (encoder_mpp.c:222-243)
encoder_mpp_deinit(enc) == EncNone

\* encoder_mpp.c:153: the encoder is usable
EncValid(enc) == enc.ctx /\ enc.frm_buf

\* memcpy(dst, src, n) and memset(dst + off, c, n) on byte sequences
Memcpy(dst, src, n) == [i \in 1 .. Len(dst) |-> IF i <= n THEN src[i] ELSE dst[i]]

Memset(dst, off, c, n) ==
  [i \in 1 .. Len(dst) |-> IF off < i /\ i <= off + n THEN c ELSE dst[i]]

\* encoder_mpp.c:163-168: the copy of the raw frame into the input buffer;
\* enc_frame_size is enc->frame_size, the size of the buffer dst
\* (fault variant: the rest of the buffer is not cleared)
EncodeCopyNoZeroFill(dst, frame_data, frame_size, enc_frame_size) ==
  LET copy_size == IF frame_size > enc_frame_size THEN enc_frame_size ELSE frame_size
  IN  Memcpy(dst, frame_data, copy_size)

EncodeCopy(dst, frame_data, frame_size, enc_frame_size) ==
  LET copy_size == IF frame_size > enc_frame_size THEN enc_frame_size ELSE frame_size
      copied == Memcpy(dst, frame_data, copy_size)
  IN  IF copy_size < enc_frame_size
      THEN Memset(copied, copy_size, 0, enc_frame_size - copy_size)
      ELSE copied

encoder_mpp_encode(enc_ok, frame_size, sink, dev, pkt_len, fw) ==
  IF ~enc_ok \/ frame_size = 0 \/ dev \in {"frame_init_fail", "put_fail"}
  THEN [ret |-> -1, out_bytes |-> 0, req |-> 0, persisted |-> 0]
  ELSE IF dev \in {"get_fail", "pkt_null"} \/ pkt_len = 0
  THEN [ret |-> 0, out_bytes |-> 0, req |-> 0, persisted |-> 0]
  ELSE LET w == enc_sink_write(sink, pkt_len, fw)
       IN  [ret |-> IF w.ret # 0 THEN -1 ELSE 0,
            out_bytes |-> IF w.ret = 0 THEN pkt_len ELSE 0,
            req |-> pkt_len,
            persisted |-> w.persisted]


(***************************************************************************)
(* Inputs of the environment.  A profile P names the values the devices    *)
(* may deliver: sequence numbers, frame lengths, encoder outcomes, packet  *)
(* lengths, how many frames the capture device delivers at most, and the   *)
(* outcomes of opening the encoder.                                        *)
(***************************************************************************)
Tiny ==
  [seqs |-> {1, 3}, lens |-> {1}, devs |-> {"put_fail", "pkt"},
   pkts |-> {5}, maxFrames |-> MaxFrames, shortWrites |-> TRUE,
   bpfs |-> {1}, fpps |-> {1, 3}, shortReads |-> FALSE,
   inits |-> {"setcfg_fail", "ok"}]

\* the inputs under which scheduling is examined: as Tiny, with one
\* sequence number and one period size
Lean == [Tiny EXCEPT !.seqs = {1}, !.fpps = {3}]

Wide ==
  [seqs |-> {0, 10, 11, 14, UIntMod - 1}, lens |-> {0, 1},
   devs |-> DevOutcomes, pkts |-> {0, 5}, maxFrames |-> MaxSeqFrames,
   shortWrites |-> TRUE,
   bpfs |-> {1, 2}, fpps |-> {1, 3}, shortReads |-> TRUE,
   inits |-> InitOutcomes]

\* what fwrite may return for a request of len bytes
WriteResults(P, len) == IF P.shortWrites THEN {0, 3, len} \cap (0 .. len) ELSE {len}

BufIdx == 0 .. (NumBufs - 1)

(***************************************************************************)
(* video_thread (main.c:162-254)                                           *)
(***************************************************************************)
VidInit ==
  [cap_open |-> FALSE, cap_streaming |-> FALSE, cap_held |-> {},
   last_sequence |-> 0, enc |-> EncNone,
   sink |-> enc_sink_init("NONE"),
   last_seq |-> 0, has_seq |-> 0, frames_target |-> 0, frames |-> 0,
   index |-> 0, len |-> 0, ret |-> 0, req |-> 0, persisted |-> 0,
   data |-> <<>>, scratch |-> <<>>]

\* main.c:206
FramesTarget(duration_sec, fps) ==
  IF duration_sec > 0 /\ fps > 0 THEN ToInt(U32(duration_sec * fps)) ELSE 0

\* main.c:209 loop condition
VideoContinue(stop, frames_target, frames) ==
  stop = 0 /\ (frames_target = 0 \/ frames < frames_target)

\* main.c:224-233: dropped units for the sequence number cur; [drop, last_seq, has_seq]
SeqGapCountsOne(has_seq, last_seq, cur) ==
  IF has_seq = 0 THEN [drop |-> 0, last_seq |-> cur, has_seq |-> 1]
  ELSE [drop |-> IF cur > U32(last_seq + 1) THEN 1 ELSE 0,
        last_seq |-> cur, has_seq |-> 1]

SeqGap(has_seq, last_seq, cur) ==
  IF has_seq = 0 THEN [drop |-> 0, last_seq |-> cur, has_seq |-> 1]
  ELSE [drop |-> IF cur > U32(last_seq + 1) THEN U32(cur - last_seq - 1) ELSE 0,
        last_seq |-> cur, has_seq |-> 1]

\* main.c:174-180: v4l2_capture_open, v4l2_capture_start
VideoOpenCapture ==
  /\ v_pc = "open_cap"
  /\ \/ /\ g_stats' = av_stats_add_drop(g_stats, 1)
        /\ obs' = [obs EXCEPT !.v_log = @ \o <<"cap_open_fail">>]
        /\ v_pc' = "done"
        /\ UNCHANGED vid
     \/ /\ vid' = [vid EXCEPT !.cap_open = TRUE, !.cap_streaming = TRUE]
        /\ obs' = [obs EXCEPT !.v_log = @ \o <<"cap_open", "cap_start">>]
        /\ v_pc' = "init_enc"
        /\ UNCHANGED g_stats
  /\ UNCHANGED <<g_stop, cfg, main_pc, s_pc, t_pc, a_pc, aud>>

\* main.c:183-189: encoder_mpp_init; on failure only the capture is closed
VideoInitEncoder(P) ==
  /\ v_pc = "init_enc"
  /\ \E step \in P.inits :
       LET r == encoder_mpp_init(step)
       IN  IF r.ret # 0
           THEN /\ vid' = [vid EXCEPT !.enc = r.enc, !.cap_open = FALSE,
                                      !.cap_streaming = FALSE]
                /\ obs' = [obs EXCEPT !.v_log = @ \o <<"enc_init_fail", "cap_close">>]
                /\ g_stats' = av_stats_add_drop(g_stats, 1)
                /\ v_pc' = "done"
           ELSE /\ vid' = [vid EXCEPT !.enc = r.enc]
                /\ obs' = [obs EXCEPT !.v_log = @ \o <<"enc_init">>]
                /\ v_pc' = "open_sink"
                /\ UNCHANGED g_stats
  /\ UNCHANGED <<g_stop, cfg, main_pc, s_pc, t_pc, a_pc, aud>>

\* main.c:192-207: enc_sink_init, enc_sink_open, then the loop's locals
\* (fault variant: the result of enc_sink_open is not checked)
VideoOpenSinkIgnoresFailure ==
  /\ v_pc = "open_sink"
  /\ \E fopen_ok \in BOOLEAN :
       LET o == enc_sink_open(enc_sink_init("FILE"), fopen_ok)
       IN  /\ vid' = [vid EXCEPT !.sink = o.sink, !.last_seq = 0, !.has_seq = 0,
                                 !.frames_target = FramesTarget(cfg.duration_sec, cfg.fps),
                                 !.frames = 0]
           /\ obs' = [obs EXCEPT !.v_log = @ \o (IF o.ret # 0 THEN <<"sink_open_fail">>
                                                  ELSE <<"sink_open">>)]
           /\ v_pc' = "loop"
  /\ UNCHANGED <<g_stop, g_stats, cfg, main_pc, s_pc, t_pc, a_pc, aud>>

VideoOpenSink ==
  /\ v_pc = "open_sink"
  /\ \E fopen_ok \in BOOLEAN :
       LET o == enc_sink_open(enc_sink_init("FILE"), fopen_ok)
       IN  IF o.ret # 0
           THEN /\ vid' = [vid EXCEPT !.sink = o.sink, !.enc = encoder_mpp_deinit(@),
                                      !.cap_open = FALSE, !.cap_streaming = FALSE]
                /\ obs' = [obs EXCEPT !.v_log = @ \o <<"sink_open_fail", "enc_deinit",
                                                         "cap_close">>]
                /\ g_stats' = av_stats_add_drop(g_stats, 1)
                /\ v_pc' = "done"
           ELSE /\ vid' = [vid EXCEPT !.sink = o.sink, !.last_seq = 0, !.has_seq = 0,
                                      !.frames_target = FramesTarget(cfg.duration_sec, cfg.fps),
                                      !.frames = 0]
                /\ obs' = [obs EXCEPT !.v_log = @ \o <<"sink_open">>]
                /\ v_pc' = "loop"
                /\ UNCHANGED g_stats
  /\ UNCHANGED <<g_stop, cfg, main_pc, s_pc, t_pc, a_pc, aud>>

\* main.c:209: while (!g_stop && (frames_target == 0 || frames < frames_target))
\* (fault variant: the loop condition does not read g_stop)
VideoLoopHeadIgnoresStop ==
  /\ v_pc = "loop"
  /\ v_pc' = IF VideoContinue(0, vid.frames_target, vid.frames)
             THEN "dqbuf" ELSE "teardown"
  /\ UNCHANGED <<g_stop, g_stats, cfg, main_pc, s_pc, t_pc, a_pc, vid, aud, obs>>

VideoLoopHead ==
  /\ v_pc = "loop"
  /\ v_pc' = IF VideoContinue(g_stop, vid.frames_target, vid.frames)
             THEN "dqbuf" ELSE "teardown"
  /\ UNCHANGED <<g_stop, g_stats, cfg, main_pc, s_pc, t_pc, a_pc, vid, aud, obs>>

\* main.c:214-221: v4l2_capture_dqbuf; a non-zero return sleeps 1 ms and retries
VideoDqbuf(P) ==
  /\ v_pc = "dqbuf"
  /\ \/ /\ v_pc' = "loop"
        /\ UNCHANGED <<vid, obs>>
     \/ /\ Len(obs.seq_hist) < P.maxFrames
        /\ \E i \in BufIdx \ vid.cap_held, seq \in P.seqs, len \in P.lens :
             /\ vid' = [vid EXCEPT !.cap_held = @ \cup {i}, !.index = i,
                                   !.len = len, !.last_sequence = seq]
             /\ obs' = [obs EXCEPT !.seq_hist = Append(@, seq), !.dq = @ + 1]
        /\ v_pc' = "process"
  /\ UNCHANGED <<g_stop, g_stats, cfg, main_pc, s_pc, t_pc, a_pc, aud>>

\* main.c:236-242: the statistics after encoder_mpp_encode returned e
\* (fault variant: a failed encode is also counted as a video frame)
VideoAccountBoth(s, e) ==
  IF e.ret # 0 THEN av_stats_inc_video_frame(av_stats_add_drop(s, 1))
  ELSE av_stats_add_enc_bytes(av_stats_inc_video_frame(s), e.out_bytes)

VideoAccount(s, e) ==
  IF e.ret # 0 THEN av_stats_add_drop(s, 1)
  ELSE av_stats_add_enc_bytes(av_stats_inc_video_frame(s), e.out_bytes)

\* main.c:223-242: sequence gap accounting, encoder_mpp_encode, statistics
VideoProcess(P) ==
  /\ v_pc = "process"
  /\ \E dev \in P.devs, pkt_len \in P.pkts :
     \E fw \in WriteResults(P, pkt_len) :
       LET g == SeqGap(vid.has_seq, vid.last_seq, vid.last_sequence)
           e == encoder_mpp_encode(EncValid(vid.enc), vid.len, vid.sink, dev, pkt_len, fw)
           s1 == IF g.drop > 0 THEN av_stats_add_drop(g_stats, g.drop) ELSE g_stats
       IN  /\ g_stats' = VideoAccount(s1, e)
           /\ vid' = [vid EXCEPT !.last_seq = g.last_seq, !.has_seq = g.has_seq,
                                 !.ret = e.ret, !.req = e.req, !.persisted = e.persisted]
           /\ obs' = [obs EXCEPT !.gap_drops = @ + g.drop,
                                 !.enc_fail = @ + (IF e.ret # 0 THEN 1 ELSE 0),
                                 !.v_sink_bytes = @ + e.persisted]
  /\ v_pc' = "qbuf"
  /\ UNCHANGED <<g_stop, cfg, main_pc, s_pc, t_pc, a_pc, aud>>

\* main.c:244-245: v4l2_capture_qbuf(&cap, index); frames++
VideoQbufSkipOnFailure ==
  /\ v_pc = "qbuf"
  /\ vid' = [vid EXCEPT !.cap_held = IF vid.ret # 0 THEN @ ELSE @ \ {vid.index},
                        !.frames = @ + 1,
                        !.ret = 0, !.req = 0, !.persisted = 0, !.len = 0]
  /\ obs' = [obs EXCEPT !.q = IF vid.ret # 0 THEN @ ELSE @ + 1]
  /\ v_pc' = "loop"
  /\ UNCHANGED <<g_stop, g_stats, cfg, main_pc, s_pc, t_pc, a_pc, aud>>

VideoQbuf ==
  /\ v_pc = "qbuf"
  /\ vid' = [vid EXCEPT !.cap_held = @ \ {vid.index}, !.frames = @ + 1,
                        !.ret = 0, !.req = 0, !.persisted = 0, !.len = 0]
  /\ obs' = [obs EXCEPT !.q = @ + 1]
  /\ v_pc' = "loop"
  /\ UNCHANGED <<g_stop, g_stats, cfg, main_pc, s_pc, t_pc, a_pc, aud>>

\* main.c:248-253: enc_sink_close, encoder_mpp_deinit, v4l2_capture_close
\* (fault variant: the video worker also sets g_stop when it finishes)
VideoTeardownSetsStop ==
  /\ v_pc = "teardown"
  /\ vid' = [vid EXCEPT !.sink = enc_sink_close(@), !.enc = encoder_mpp_deinit(@),
                        !.cap_open = FALSE, !.cap_streaming = FALSE]
  /\ obs' = [obs EXCEPT !.v_log = @ \o <<"sink_close", "enc_deinit", "cap_close">>]
  /\ v_pc' = "done"
  /\ g_stop' = 1
  /\ UNCHANGED <<g_stats, cfg, main_pc, s_pc, t_pc, a_pc, aud>>

\* (fault variant: the capture is closed first, the sink last)
VideoTeardownCaptureFirst ==
  /\ v_pc = "teardown"
  /\ vid' = [vid EXCEPT !.sink = enc_sink_close(@), !.enc = encoder_mpp_deinit(@),
                        !.cap_open = FALSE, !.cap_streaming = FALSE]
  /\ obs' = [obs EXCEPT !.v_log = @ \o <<"cap_close", "enc_deinit", "sink_close">>]
  /\ v_pc' = "done"
  /\ UNCHANGED <<g_stop, g_stats, cfg, main_pc, s_pc, t_pc, a_pc, aud>>

VideoTeardown ==
  /\ v_pc = "teardown"
  /\ vid' = [vid EXCEPT !.sink = enc_sink_close(@), !.enc = encoder_mpp_deinit(@),
                        !.cap_open = FALSE, !.cap_streaming = FALSE]
  /\ obs' = [obs EXCEPT !.v_log = @ \o <<"sink_close", "enc_deinit", "cap_close">>]
  /\ v_pc' = "done"
  /\ UNCHANGED <<g_stop, g_stats, cfg, main_pc, s_pc, t_pc, a_pc, aud>>

VideoStep(P) ==
  \/ VideoOpenCapture
  \/ VideoInitEncoder(P)
  \/ VideoOpenSink
  \/ VideoLoopHead
  \/ VideoDqbuf(P)
  \/ VideoProcess(P)
  \/ VideoQbuf
  \/ VideoTeardown


(***************************************************************************)
(* audio_thread (main.c:78-146)                                            *)
(***************************************************************************)
AudInit ==
  [ac_open |-> FALSE, sample_rate |-> 0, bytes_per_frame |-> 0,
   frames_per_period |-> 0, af_open |-> FALSE, buf |-> FALSE,
   total_bytes |-> 0, chunk |-> 0, written |-> 0, n |-> 0]

\* main.c:105-106
\* (fault variant: duration 0 is not treated as unlimited)
TotalBytesNoUnlimited(sample_rate, bytes_per_frame, duration_sec) ==
  LET bytes_per_sec == SizeT(sample_rate * bytes_per_frame)
  IN  SizeT(bytes_per_sec * duration_sec)

TotalBytes(sample_rate, bytes_per_frame, duration_sec) ==
  LET bytes_per_sec == SizeT(sample_rate * bytes_per_frame)
  IN  IF duration_sec > 0 THEN SizeT(bytes_per_sec * duration_sec) ELSE SizeMax

\* main.c:109
ChunkSize(frames_per_period, bytes_per_frame) == SizeT(frames_per_period * bytes_per_frame)

\* main.c:120 loop condition
AudioContinue(stop, written, total_bytes) == stop = 0 /\ written < total_bytes

\* the values audio_capture_read may return for a request of chunk bytes
ReadSizes(P, chunk) == IF P.shortReads THEN (-1) .. chunk ELSE {0, chunk}

\* main.c:85-89: audio_capture_open negotiates rate, frame size and period
AudioOpenCapture(P) ==
  /\ a_pc = "open_cap"
  /\ \/ /\ g_stats' = av_stats_add_drop(g_stats, 1)
        /\ obs' = [obs EXCEPT !.a_log = @ \o <<"cap_open_fail">>]
        /\ a_pc' = "done"
        /\ UNCHANGED aud
     \/ /\ \E bpf \in P.bpfs, fpp \in P.fpps :
             aud' = [aud EXCEPT !.ac_open = TRUE, !.sample_rate = cfg.sample_rate,
                                !.bytes_per_frame = bpf, !.frames_per_period = fpp]
        /\ obs' = [obs EXCEPT !.a_log = @ \o <<"cap_open">>]
        /\ a_pc' = "fopen"
        /\ UNCHANGED g_stats
  /\ UNCHANGED <<g_stop, cfg, main_pc, s_pc, t_pc, v_pc, vid>>

\* main.c:91-97: fopen(cfg->output_path_pcm, "wb")
AudioOpenFile ==
  /\ a_pc = "fopen"
  /\ \/ /\ aud' = [aud EXCEPT !.ac_open = FALSE]
        /\ obs' = [obs EXCEPT !.a_log = @ \o <<"fopen_fail", "cap_close">>]
        /\ g_stats' = av_stats_add_drop(g_stats, 1)
        /\ a_pc' = "done"
     \/ /\ aud' = [aud EXCEPT !.af_open = TRUE]
        /\ obs' = [obs EXCEPT !.a_log = @ \o <<"fopen">>]
        /\ a_pc' = "malloc"
        /\ UNCHANGED g_stats
  /\ UNCHANGED <<g_stop, cfg, main_pc, s_pc, t_pc, v_pc, vid>>

\* main.c:105-119: total_bytes, chunk, malloc(chunk), written = 0
\* (fault variant: a failed malloc leaves the output file open)
AudioAllocBufLeaksFile ==
  /\ a_pc = "malloc"
  /\ \/ /\ aud' = [aud EXCEPT !.ac_open = FALSE]
        /\ obs' = [obs EXCEPT !.a_log = @ \o <<"malloc_fail", "cap_close">>]
        /\ g_stats' = av_stats_add_drop(g_stats, 1)
        /\ a_pc' = "done"
     \/ /\ aud' = [aud EXCEPT
                     !.total_bytes = TotalBytes(aud.sample_rate, aud.bytes_per_frame,
                                                cfg.duration_sec),
                     !.chunk = ChunkSize(aud.frames_per_period, aud.bytes_per_frame),
                     !.buf = TRUE, !.written = 0]
        /\ obs' = [obs EXCEPT !.a_log = @ \o <<"malloc">>]
        /\ a_pc' = "loop"
        /\ UNCHANGED g_stats
  /\ UNCHANGED <<g_stop, cfg, main_pc, s_pc, t_pc, v_pc, vid>>

AudioAllocBuf ==
  /\ a_pc = "malloc"
  /\ \/ /\ aud' = [aud EXCEPT !.af_open = FALSE, !.ac_open = FALSE]
        /\ obs' = [obs EXCEPT !.a_log = @ \o <<"malloc_fail", "fclose", "cap_close">>]
        /\ g_stats' = av_stats_add_drop(g_stats, 1)
        /\ a_pc' = "done"
     \/ /\ aud' = [aud EXCEPT
                     !.total_bytes = TotalBytes(aud.sample_rate, aud.bytes_per_frame,
                                                cfg.duration_sec),
                     !.chunk = ChunkSize(aud.frames_per_period, aud.bytes_per_frame),
                     !.buf = TRUE, !.written = 0]
        /\ obs' = [obs EXCEPT !.a_log = @ \o <<"malloc">>]
        /\ a_pc' = "loop"
        /\ UNCHANGED g_stats
  /\ UNCHANGED <<g_stop, cfg, main_pc, s_pc, t_pc, v_pc, vid>>

\* main.c:120: while (!g_stop && written < total_bytes)
AudioLoopHead ==
  /\ a_pc = "loop"
  /\ a_pc' = IF AudioContinue(g_stop, aud.written, aud.total_bytes)
             THEN "read" ELSE "teardown"
  /\ UNCHANGED <<g_stop, g_stats, cfg, main_pc, s_pc, t_pc, v_pc, vid, aud, obs>>

\* main.c:121-128: audio_capture_read; n <= 0 sleeps 1 ms and retries
AudioRead(P) ==
  /\ a_pc = "read"
  /\ \E n \in ReadSizes(P, aud.chunk) :
       IF n <= 0
       THEN /\ a_pc' = "loop"
            /\ UNCHANGED <<aud, obs>>
       ELSE /\ obs.a_reads < MaxReads
            /\ aud' = [aud EXCEPT !.n = n]
            /\ obs' = [obs EXCEPT !.a_reads = @ + 1]
            /\ a_pc' = "write"
  /\ UNCHANGED <<g_stop, g_stats, cfg, main_pc, s_pc, t_pc, v_pc, vid>>

\* main.c:129-137: fwrite; a short write drops one unit and leaves the loop
\* (fault variant: a short write drops one unit and the loop goes on)
AudioWriteContinues(P) ==
  /\ a_pc = "write"
  /\ \E wn \in WriteResults(P, aud.n) :
       /\ obs' = [obs EXCEPT !.a_file_bytes = @ + wn,
                             !.a_short = IF wn # aud.n THEN @ + 1 ELSE @]
       /\ IF wn # aud.n
          THEN /\ g_stats' = av_stats_add_drop(g_stats, 1)
               /\ aud' = [aud EXCEPT !.n = 0]
               /\ a_pc' = "loop"
          ELSE /\ g_stats' = av_stats_inc_audio_chunk(g_stats)
               /\ aud' = [aud EXCEPT !.written = SizeT(@ + wn), !.n = 0]
               /\ a_pc' = "loop"
  /\ UNCHANGED <<g_stop, cfg, main_pc, s_pc, t_pc, v_pc, vid>>

AudioWrite(P) ==
  /\ a_pc = "write"
  /\ \E wn \in WriteResults(P, aud.n) :
       /\ obs' = [obs EXCEPT !.a_file_bytes = @ + wn,
                             !.a_short = IF wn # aud.n THEN @ + 1 ELSE @]
       /\ IF wn # aud.n
          THEN /\ g_stats' = av_stats_add_drop(g_stats, 1)
               /\ aud' = [aud EXCEPT !.n = 0]
               /\ a_pc' = "teardown"
          ELSE /\ g_stats' = av_stats_inc_audio_chunk(g_stats)
               /\ aud' = [aud EXCEPT !.written = SizeT(@ + wn), !.n = 0]
               /\ a_pc' = "loop"
  /\ UNCHANGED <<g_stop, cfg, main_pc, s_pc, t_pc, v_pc, vid>>

\* main.c:140-145: free(buf), fclose(af), audio_capture_close(&ac)
AudioTeardown ==
  /\ a_pc = "teardown"
  /\ aud' = [aud EXCEPT !.buf = FALSE, !.af_open = FALSE, !.ac_open = FALSE]
  /\ obs' = [obs EXCEPT !.a_log = @ \o <<"free", "fclose", "cap_close">>]
  /\ a_pc' = "done"
  /\ UNCHANGED <<g_stop, g_stats, cfg, main_pc, s_pc, t_pc, v_pc, vid>>

AudioStep(P) ==
  \/ AudioOpenCapture(P)
  \/ AudioOpenFile
  \/ AudioAllocBuf
  \/ AudioLoopHead
  \/ AudioRead(P)
  \/ AudioWrite(P)
  \/ AudioTeardown

(***************************************************************************)
(* stats_thread (main.c:55-63) and timer_thread (main.c:42-49)             *)
(***************************************************************************)
\* main.c:58: while (!g_stop)
StatsLoopHead ==
  /\ s_pc = "check"
  /\ s_pc' = IF g_stop = 0 THEN "tick" ELSE "done"
  /\ UNCHANGED <<g_stop, g_stats, cfg, main_pc, t_pc, v_pc, a_pc, vid, aud, obs>>

\* main.c:59-60: sleep(1); av_stats_tick_print(&g_stats)
StatsTick ==
  /\ s_pc = "tick"
  /\ s_pc' = "check"
  /\ UNCHANGED <<g_stop, g_stats, cfg, main_pc, t_pc, v_pc, a_pc, vid, aud, obs>>

StatsStep == StatsLoopHead \/ StatsTick

\* main.c:45: if (!t || t->sec == 0) return NULL
TimerStart ==
  /\ t_pc = "start"
  /\ t_pc' = IF cfg.duration_sec = 0 THEN "done" ELSE "sleep"
  /\ UNCHANGED <<g_stop, g_stats, cfg, main_pc, s_pc, v_pc, a_pc, vid, aud, obs>>

\* main.c:46-48: sleep(t->sec); g_stop = 1
\* (fault variant: the timer returns without setting the flag)
TimerFireNoStop ==
  /\ t_pc = "sleep"
  /\ obs' = [obs EXCEPT !.timer_fired = TRUE]
  /\ t_pc' = "done"
  /\ UNCHANGED <<g_stop, g_stats, cfg, main_pc, s_pc, v_pc, a_pc, vid, aud>>

TimerFire ==
  /\ t_pc = "sleep"
  /\ g_stop' = 1
  /\ obs' = [obs EXCEPT !.timer_fired = TRUE]
  /\ t_pc' = "done"
  /\ UNCHANGED <<g_stats, cfg, main_pc, s_pc, v_pc, a_pc, vid, aud>>

TimerStep == TimerStart \/ TimerFire

(***************************************************************************)
(* Signal delivery: on_sigint (main.c:26-30), installed at main.c:266-267  *)
(***************************************************************************)
on_sigint ==
  /\ main_pc # "exit"
  /\ g_stop' = 1
  /\ obs' = [obs EXCEPT !.signalled = TRUE]
  /\ UNCHANGED <<g_stats, cfg, main_pc, s_pc, t_pc, v_pc, a_pc, vid, aud>>


(***************************************************************************)
(* main (main.c:264-331)                                                   *)
(***************************************************************************)
\* app_config_parse_args: a --size that parse_size rejects (app_config.c:15,
\* 106-109) or a non-positive width or height (app_config.c:127-130) returns -1
ParseArgsRet(width, height) == IF width <= 0 \/ height <= 0 THEN -1 ELSE 0

\* main.c:271-275: app_config_parse_args(...) != 0 makes main return -1
MainParseArgs ==
  /\ main_pc = "parse"
  /\ IF ParseArgsRet(cfg.width, cfg.height) # 0
     THEN /\ main_pc' = "exit"
          /\ obs' = [obs EXCEPT !.main_ret = -1]
     ELSE /\ main_pc' = "create_s"
          /\ UNCHANGED obs
  /\ UNCHANGED <<g_stop, g_stats, cfg, s_pc, t_pc, v_pc, a_pc, vid, aud>>

\* main.c:286-289: pthread_create(stats_thread)
MainCreateStats ==
  /\ main_pc = "create_s"
  /\ \/ /\ main_pc' = "exit"
        /\ obs' = [obs EXCEPT !.main_ret = -1]
        /\ UNCHANGED s_pc
     \/ /\ s_pc' = "check"
        /\ main_pc' = "create_t"
        /\ UNCHANGED obs
  /\ UNCHANGED <<g_stop, g_stats, cfg, t_pc, v_pc, a_pc, vid, aud>>

\* main.c:292-299: pthread_create(timer_thread) when duration_sec > 0
MainCreateTimer ==
  /\ main_pc = "create_t"
  /\ IF cfg.duration_sec > 0
     THEN \/ /\ g_stop' = 1
             /\ obs' = [obs EXCEPT !.create_failed = TRUE]
             /\ main_pc' = "tfail_join_s"
             /\ UNCHANGED t_pc
          \/ /\ t_pc' = "start"
             /\ main_pc' = "create_v"
             /\ UNCHANGED <<g_stop, obs>>
     ELSE /\ main_pc' = "create_v"
          /\ UNCHANGED <<g_stop, obs, t_pc>>
  /\ UNCHANGED <<g_stats, cfg, s_pc, v_pc, a_pc, vid, aud>>

\* main.c:304-310: pthread_create(video_thread)
MainCreateVideo ==
  /\ main_pc = "create_v"
  /\ \/ /\ g_stop' = 1
        /\ obs' = [obs EXCEPT !.create_failed = TRUE]
        /\ main_pc' = "vfail_join_s"
        /\ UNCHANGED v_pc
     \/ /\ v_pc' = "open_cap"
        /\ main_pc' = "create_a"
        /\ UNCHANGED <<g_stop, obs>>
  /\ UNCHANGED <<g_stats, cfg, s_pc, t_pc, a_pc, vid, aud>>

\* main.c:311-318: pthread_create(audio_thread)
MainCreateAudio ==
  /\ main_pc = "create_a"
  /\ \/ /\ g_stop' = 1
        /\ obs' = [obs EXCEPT !.create_failed = TRUE]
        /\ main_pc' = "afail_join_v"
        /\ UNCHANGED a_pc
     \/ /\ a_pc' = "open_cap"
        /\ main_pc' = "join_a"
        /\ UNCHANGED <<g_stop, obs>>
  /\ UNCHANGED <<g_stats, cfg, s_pc, t_pc, v_pc, vid, aud>>

\* pthread_join of the thread at position thread_pc; main goes from at to next
MainJoin(at, thread_pc, next, ret) ==
  /\ main_pc = at
  /\ thread_pc = "done"
  /\ main_pc' = next
  /\ obs' = IF next = "exit" THEN [obs EXCEPT !.main_ret = ret] ELSE obs
  /\ UNCHANGED <<g_stop, g_stats, cfg, s_pc, t_pc, v_pc, a_pc, vid, aud>>

\* if (cfg.duration_sec > 0) pthread_join(th_t, NULL); then return ret
\* (fault variant: main returns without waiting for the timer thread)
MainJoinTimerNoWait(at, ret) ==
  /\ main_pc = at
  /\ main_pc' = "exit"
  /\ obs' = [obs EXCEPT !.main_ret = ret]
  /\ UNCHANGED <<g_stop, g_stats, cfg, s_pc, t_pc, v_pc, a_pc, vid, aud>>

MainJoinTimer(at, ret) ==
  /\ main_pc = at
  /\ cfg.duration_sec > 0 => t_pc = "done"
  /\ main_pc' = "exit"
  /\ obs' = [obs EXCEPT !.main_ret = ret]
  /\ UNCHANGED <<g_stop, g_stats, cfg, s_pc, t_pc, v_pc, a_pc, vid, aud>>

\* main.c:296-297, 307-309, 314-317: the joins after a failed pthread_create
MainFailJoins ==
  \/ MainJoin("tfail_join_s", s_pc, "exit", -1)
  \/ MainJoin("vfail_join_s", s_pc, "vfail_join_t", -1)
  \/ MainJoinTimer("vfail_join_t", -1)
  \/ MainJoin("afail_join_v", v_pc, "afail_join_s", -1)
  \/ MainJoin("afail_join_s", s_pc, "afail_join_t", -1)
  \/ MainJoinTimer("afail_join_t", -1)

\* main.c:320: pthread_join(th_a, NULL)
MainJoinAudio == MainJoin("join_a", a_pc, "set_stop", 0)

\* main.c:322: g_stop = 1
\* (fault variants: the flag cleared instead of set; the assignment left out)
MainSetStopClears ==
  /\ main_pc = "set_stop"
  /\ g_stop' = 0
  /\ obs' = [obs EXCEPT !.audio_stop = TRUE]
  /\ main_pc' = "join_v"
  /\ UNCHANGED <<g_stats, cfg, s_pc, t_pc, v_pc, a_pc, vid, aud>>

MainSetStopSkipped ==
  /\ main_pc = "set_stop"
  /\ main_pc' = "join_v"
  /\ UNCHANGED <<g_stop, obs, g_stats, cfg, s_pc, t_pc, v_pc, a_pc, vid, aud>>

MainSetStop ==
  /\ main_pc = "set_stop"
  /\ g_stop' = 1
  /\ obs' = [obs EXCEPT !.audio_stop = TRUE]
  /\ main_pc' = "join_v"
  /\ UNCHANGED <<g_stats, cfg, s_pc, t_pc, v_pc, a_pc, vid, aud>>

\* main.c:323-330: join video, stats, timer; return 0
MainJoinRest ==
  \/ MainJoin("join_v", v_pc, "join_s", 0)
  \/ MainJoin("join_s", s_pc, "join_t", 0)
  \/ MainJoinTimer("join_t", 0)

MainStep ==
  \/ MainParseArgs
  \/ MainCreateStats
  \/ MainCreateTimer
  \/ MainCreateVideo
  \/ MainCreateAudio
  \/ MainFailJoins
  \/ MainJoinAudio
  \/ MainSetStop
  \/ MainJoinRest

(***************************************************************************)
(* The whole program                                                       *)
(***************************************************************************)
\* configurations that app_config_parse_args accepts (app_config.c:126-133)
Configs ==
  [duration_sec : {0, 1, IntMax + 1}, fps : {1, 2}, sample_rate : {2},
   width : {1}, height : {1}]

\* configurations asked for on the command line, valid geometry or not
SmallConfigs ==
  [duration_sec : {0, 1}, fps : {1}, sample_rate : {2},
   width : {0, 1}, height : {0, 1}]

ObsInit ==
  [seq_hist |-> <<>>, dq |-> 0, q |-> 0, gap_drops |-> 0, enc_fail |-> 0,
   v_sink_bytes |-> 0, a_file_bytes |-> 0, a_short |-> 0, a_reads |-> 0,
   timer_fired |-> FALSE, signalled |-> FALSE, audio_stop |-> FALSE,
   create_failed |-> FALSE, main_ret |-> 0, v_log |-> <<>>, a_log |-> <<>>,
   scratch_before |-> <<>>]

\* main.c:264-271: handlers installed, defaults loaded, arguments not yet
\* checked (g_stats is zero as a static before av_stats_init at main.c:280)
Init ==
  /\ g_stop = 0
  /\ g_stats = av_stats_init
  /\ cfg \in SmallConfigs
  /\ main_pc = "parse"
  /\ s_pc = "none"
  /\ t_pc = "none"
  /\ v_pc = "none"
  /\ a_pc = "none"
  /\ vid = VidInit
  /\ aud = AudInit
  /\ obs = ObsInit

Next ==
  \/ MainStep
  \/ StatsStep
  \/ TimerStep
  \/ VideoStep(Tiny)
  \/ AudioStep(Tiny)
  \/ on_sigint

Spec == Init /\ [][Next]_vars

(***************************************************************************)
(* The video worker alone, from the state in which main has just created   *)
(* it (main.c:304), with the wide inputs; g_stop is set by on_sigint.      *)
(***************************************************************************)
InitVideo ==
  /\ g_stop = 0
  /\ g_stats = av_stats_init
  /\ cfg \in Configs
  /\ main_pc = "create_a"
  /\ s_pc = "check"
  /\ t_pc = IF cfg.duration_sec > 0 THEN "start" ELSE "none"
  /\ v_pc = "open_cap"
  /\ a_pc = "none"
  /\ vid = VidInit
  /\ aud = AudInit
  /\ obs = ObsInit

NextVideo == VideoStep(Wide) \/ on_sigint

SpecVideo == InitVideo /\ [][NextVideo]_vars

(***************************************************************************)
(* The audio worker alone, from the state in which main has just created   *)
(* it (main.c:311), with the wide inputs; g_stop is set by on_sigint.      *)
(***************************************************************************)
InitAudio ==
  /\ g_stop = 0
  /\ g_stats = av_stats_init
  /\ cfg \in Configs
  /\ main_pc = "join_a"
  /\ s_pc = "check"
  /\ t_pc = IF cfg.duration_sec > 0 THEN "start" ELSE "none"
  /\ v_pc = "open_cap"
  /\ a_pc = "open_cap"
  /\ vid = VidInit
  /\ aud = AudInit
  /\ obs = ObsInit

NextAudio == AudioStep(Wide) \/ on_sigint

SpecAudio == InitAudio /\ [][NextAudio]_vars

(***************************************************************************)
(* The sink alone (sink.c): a caller initialises a sink of any type, opens *)
(* it, writes to it and closes it.  v_pc is the caller's position, vid     *)
(* holds the sink, the last return value, the length of the last write     *)
(* request and the bytes of it that reached the file; vid.frames counts    *)
(* the writes.                                                             *)
(***************************************************************************)
SinkTypes == {"NONE", "FILE", "PIPE_FFMPEG"}

\* a configuration with unlimited duration, used where the configuration
\* plays no part
UnitCfg == [duration_sec |-> 0, fps |-> 1, sample_rate |-> 2, width |-> 1, height |-> 1]

InitSink ==
  /\ g_stop = 0
  /\ g_stats = av_stats_init
  /\ cfg = UnitCfg
  /\ main_pc = "parse"
  /\ s_pc = "none"
  /\ t_pc = "none"
  /\ v_pc = "sink_new"
  /\ a_pc = "none"
  /\ vid = VidInit
  /\ aud = AudInit
  /\ obs = ObsInit

\* enc_sink_init(sink, type, target)
SinkInit ==
  /\ v_pc = "sink_new"
  /\ \E type \in SinkTypes : vid' = [vid EXCEPT !.sink = enc_sink_init(type)]
  /\ v_pc' = "sink_inited"
  /\ UNCHANGED <<g_stop, g_stats, cfg, main_pc, s_pc, t_pc, a_pc, aud, obs>>

\* enc_sink_open(sink)
SinkOpen ==
  /\ v_pc = "sink_inited"
  /\ \E fopen_ok \in BOOLEAN :
       LET o == enc_sink_open(vid.sink, fopen_ok)
       IN  /\ vid' = [vid EXCEPT !.sink = o.sink, !.ret = o.ret]
           /\ obs' = [obs EXCEPT !.v_log = @ \o (IF o.ret = 0 THEN <<"sink_open">>
                                                  ELSE <<"sink_open_fail">>)]
  /\ v_pc' = "sink_ready"
  /\ UNCHANGED <<g_stop, g_stats, cfg, main_pc, s_pc, t_pc, a_pc, aud>>

\* enc_sink_write(sink, data, len): fwrite may write any 0 .. len bytes
SinkWrite ==
  /\ v_pc = "sink_ready"
  /\ vid.frames < MaxSinkWrites
  /\ \E len \in 0 .. MaxLen : \E fw \in 0 .. len :
       LET w == enc_sink_write(vid.sink, len, fw)
       IN  /\ vid' = [vid EXCEPT !.ret = w.ret, !.req = len,
                                 !.persisted = w.persisted, !.frames = @ + 1]
           /\ obs' = [obs EXCEPT !.v_sink_bytes = @ + w.persisted]
  /\ UNCHANGED <<g_stop, g_stats, cfg, main_pc, s_pc, t_pc, v_pc, a_pc, aud>>

\* enc_sink_close(sink)
SinkClose ==
  /\ v_pc = "sink_ready"
  /\ vid' = [vid EXCEPT !.sink = enc_sink_close(@)]
  /\ obs' = [obs EXCEPT !.v_log = @ \o <<"sink_close">>]
  /\ v_pc' = "sink_closed"
  /\ UNCHANGED <<g_stop, g_stats, cfg, main_pc, s_pc, t_pc, a_pc, aud>>

NextSink == SinkInit \/ SinkOpen \/ SinkWrite \/ SinkClose

SpecSink == InitSink /\ [][NextSink]_vars

(***************************************************************************)
(* The copy step of encoder_mpp_encode alone (encoder_mpp.c:151-168), on   *)
(* an initialised encoder whose input buffer vid.scratch has any size      *)
(* 1 .. MaxCap and any previous content.  vid.data is the raw frame,       *)
(* vid.len its length; obs.scratch_before is the buffer before the copy.   *)
(* (The byte contents of frames play no part in the worker specifications  *)
(* above, where data and scratch stay empty.)                              *)
(***************************************************************************)
Bytes == {0, 1}

BytesOfLen(n) == [1 .. n -> Bytes]

InitCopy ==
  /\ g_stop = 0
  /\ g_stats = av_stats_init
  /\ cfg = UnitCfg
  /\ main_pc = "parse"
  /\ s_pc = "none"
  /\ t_pc = "none"
  /\ v_pc = "enc_idle"
  /\ a_pc = "none"
  /\ \E c \in 1 .. MaxCap : \E content \in BytesOfLen(c) :
       vid = [VidInit EXCEPT !.enc = encoder_mpp_init("ok").enc, !.scratch = content]
  /\ aud = AudInit
  /\ obs = ObsInit

\* encoder_mpp.c:151-168: a frame of n bytes arrives; n = 0 returns -1 before
\* the copy
EncodeCopyStep ==
  /\ v_pc = "enc_idle"
  /\ \E n \in 0 .. (MaxCap + 1) : \E frame_data \in BytesOfLen(n) :
       IF ~EncValid(vid.enc) \/ n = 0
       THEN /\ vid' = [vid EXCEPT !.ret = -1, !.data = frame_data, !.len = n]
            /\ v_pc' = "enc_idle"
            /\ UNCHANGED obs
       ELSE /\ vid' = [vid EXCEPT
                         !.scratch = EncodeCopy(@, frame_data, n, Len(vid.scratch)),
                         !.data = frame_data, !.len = n, !.ret = 0]
            /\ obs' = [obs EXCEPT !.scratch_before = vid.scratch]
            /\ v_pc' = "enc_copied"
  /\ UNCHANGED <<g_stop, g_stats, cfg, main_pc, s_pc, t_pc, a_pc, aud>>

\* encoder_mpp.c:170-219: the rest of the call; the buffer keeps its content
\* until the next frame
EncodeReturn ==
  /\ v_pc = "enc_copied"
  /\ v_pc' = "enc_idle"
  /\ UNCHANGED <<g_stop, g_stats, cfg, main_pc, s_pc, t_pc, a_pc, vid, aud, obs>>

NextCopy == EncodeCopyStep \/ EncodeReturn

SpecCopy == InitCopy /\ [][NextCopy]_vars

(***************************************************************************)
(* Scheduling: every created thread keeps being scheduled, and every       *)
(* driver call returns.  Signals need not arrive.                          *)
(***************************************************************************)
Fairness ==
  /\ WF_vars(MainStep)
  /\ WF_vars(StatsStep)
  /\ WF_vars(TimerStep)
  /\ WF_vars(VideoStep(Lean))
  /\ WF_vars(AudioStep(Lean))

NextFair ==
  \/ MainStep
  \/ StatsStep
  \/ TimerStep
  \/ VideoStep(Lean)
  \/ AudioStep(Lean)
  \/ on_sigint

FairSpec == Init /\ [][NextFair]_vars /\ Fairness

(***************************************************************************)
(* Properties                                                              *)
(***************************************************************************)
RECURSIVE GapSumMod(_)
\* sum over consecutive pairs of the history h of the 32-bit gap
\* (cur - last - 1) mod 2^w, taken where cur > (last + 1) mod 2^w
GapSumMod(h) ==
  IF Len(h) < 2 THEN 0
  ELSE LET n == Len(h)
           last == h[n - 1]
           cur == h[n]
       IN  GapSumMod(SubSeq(h, 1, n - 1))
           + (IF cur > U32(last + 1) THEN U32(cur - last - 1) ELSE 0)

RECURSIVE GapSumMath(_)
\* the same sum in unbounded integers: (cur - last - 1) where cur > last + 1
GapSumMath(h) ==
  IF Len(h) < 2 THEN 0
  ELSE LET n == Len(h)
           last == h[n - 1]
           cur == h[n]
       IN  GapSumMath(SubSeq(h, 1, n - 1))
           + (IF cur > last + 1 THEN cur - last - 1 ELSE 0)

\* the history whose gaps the worker has already accounted for
SeqAccounted == IF v_pc = "process" THEN SubSeq(obs.seq_hist, 1, Len(obs.seq_hist) - 1)
                ELSE obs.seq_hist

\* C1: the stop flag is monotonic: once it is 1 it stays 1, and every write
\* to it after initialisation writes 1 (signal handler, timer, main).
C1_StopMonotonic ==
  [][(g_stop = 1 => g_stop' = 1) /\ (g_stop' # g_stop => g_stop' = 1)]_vars

\* C1 witness: the flag is 1 after the signal handler, the timer and main
\* (after the audio worker returned) have each written it.
C1_Witness ==
  g_stop = 1 /\ obs.signalled /\ obs.timer_fired /\ obs.audio_stop

\* C2: every buffer dequeued by the video worker is enqueued again exactly
\* once before the next dequeue attempt, whether or not its encode failed;
\* the worker holds at most one buffer and none at the loop head, at the
\* dequeue, in teardown and after it.
C2_BufferReturned ==
  /\ Cardinality(vid.cap_held) <= 1
  /\ v_pc \in {"loop", "dqbuf", "teardown", "done"} =>
       vid.cap_held = {} /\ obs.q = obs.dq
  /\ v_pc \in {"process", "qbuf"} =>
       vid.cap_held = {vid.index} /\ obs.dq = obs.q + 1

\* C2 witness: back at the dequeue after two frames, one whose encode failed
\* and one whose encode succeeded, both buffers returned.
C2_Witness ==
  /\ v_pc = "dqbuf"
  /\ obs.dq = 2 /\ obs.q = 2
  /\ obs.enc_fail = 1
  /\ g_stats.video_frames = 1

\* C3 (amended): the dropped units recorded for sequence gaps equal the sum,
\* over consecutive pairs, of (cur - last - 1) mod 2^32 where
\* cur > (last + 1) mod 2^32 (32-bit unsigned arithmetic); the first frame
\* records none, a contiguous sequence records zero, and 10,11,14 records 2.
C3_GapDropsMod ==
  /\ obs.gap_drops = GapSumMod(SeqAccounted)
  /\ Len(SeqAccounted) <= 1 => obs.gap_drops = 0
  /\ SeqAccounted = <<10, 11>> => obs.gap_drops = 0
  /\ SeqAccounted = <<10, 11, 14>> => obs.gap_drops = 2
  /\ v_pc \in {"loop", "dqbuf", "process", "qbuf", "teardown"} =>
       g_stats.drop >= obs.gap_drops

\* C3 witness: the frames 10, 11, 14 have been accounted and 2 drops recorded.
C3_Witness ==
  v_pc = "qbuf" /\ obs.seq_hist = <<10, 11, 14>> /\ obs.gap_drops = 2

\* C3 as stated: the recorded gap drops equal the sum of (cur - last - 1)
\* over the pairs with cur > last + 1, in unbounded integers.
C3_GapDropsMath ==
  obs.gap_drops = GapSumMath(SeqAccounted)

InLog(log, e) == \E i \in DOMAIN log : log[i] = e

VideoInLoop == v_pc \in {"loop", "dqbuf", "process", "qbuf", "teardown"}

AudioInLoop == a_pc \in {"loop", "read", "write", "teardown"}

\* no writer of g_stop outside the workers has run
NoExternalStop == ~obs.signalled /\ ~obs.timer_fired /\ ~obs.create_failed

\* C4: for a non-zero duration the video worker's frame target is
\* duration_sec * fps (150 for 5 s at 30 fps), the frames it processes never
\* exceed it, and it leaves the loop by itself, with the stop flag unset,
\* only on reaching it.
C4_FrameTarget ==
  /\ FramesTarget(5, 30) = 150
  /\ (cfg.duration_sec > 0 /\ VideoInLoop) =>
       /\ vid.frames_target = cfg.duration_sec * cfg.fps
       /\ vid.frames <= cfg.duration_sec * cfg.fps
       /\ (v_pc = "teardown" /\ g_stop = 0) => vid.frames = cfg.duration_sec * cfg.fps

\* C5: for a non-zero duration the bytes the audio worker has written to its
\* output never exceed duration_sec * sample_rate * bytes_per_frame
\* (960000 for 5 s, 48000 Hz, 4 bytes per frame).
C5_ByteLimit ==
  /\ TotalBytes(48000, 4, 5) = 960000
  /\ (cfg.duration_sec > 0 /\ (AudioInLoop \/ a_pc = "done")) =>
       obs.a_file_bytes <= cfg.duration_sec * aud.sample_rate * aud.bytes_per_frame

\* C6: whenever the audio worker has returned, the stop flag is set before
\* main waits for the video worker, and the video worker and the reporter
\* eventually return.
C6_AudioReturnStops ==
  /\ [](main_pc = "join_v" => (a_pc = "done" /\ g_stop = 1))
  /\ (a_pc = "done") ~> (v_pc = "done" /\ s_pc = "done")

\* C6 witness: unlimited duration, no signal: the audio worker returned, main
\* set the flag, and the video worker, which was in its loop, and the reporter
\* have returned.
C6_Witness ==
  /\ cfg.duration_sec = 0 /\ NoExternalStop
  /\ a_pc = "done" /\ obs.audio_stop
  /\ obs.dq >= 1 /\ v_pc = "done" /\ s_pc = "done"

\* C7 (amended): the video worker never writes the stop flag; while it has
\* finished and no signal, timer, audio completion or failed thread creation
\* has occurred, the flag is 0 and the audio worker's loop head still
\* continues.
C7_VideoNeverStops ==
  /\ []((v_pc = "done" /\ NoExternalStop /\ a_pc # "done") => g_stop = 0)
  /\ [][v_pc' # v_pc => g_stop' = g_stop]_vars
  /\ [][(v_pc = "done" /\ NoExternalStop /\ a_pc = "loop" /\ a_pc' # a_pc
          /\ aud.written < aud.total_bytes) => a_pc' = "read"]_vars

\* C7 witness: the video worker finished on its frame limit, nothing set the
\* flag, and the audio worker is reading.
C7_Witness ==
  /\ v_pc = "done" /\ obs.dq >= 1 /\ cfg.duration_sec > 0
  /\ NoExternalStop /\ g_stop = 0 /\ a_pc = "read"

\* C7 as stated: while the video worker has finished and no signal, timer
\* or audio completion has occurred, the stop flag is 0.
C7_StopOnlyBySignalTimerAudio ==
  (v_pc = "done" /\ ~obs.signalled /\ ~obs.timer_fired /\ a_pc # "done") => g_stop = 0

\* C8 (amended): no stage failure writes the stop flag.  An audio write error
\* records one dropped unit, ends the loop without a further chunk, and the
\* worker releases its resources and returns.  A video encode or sink error
\* records one dropped unit for that frame (beside the frame's gap drops),
\* the buffer is requeued and the loop continues; a failed dequeue records
\* nothing and is retried.
C8_FailureLocal ==
  /\ [](obs.a_short >= 1 => a_pc \in {"teardown", "done"})
  /\ [](a_pc = "done" => (~aud.buf /\ ~aud.af_open /\ ~aud.ac_open))
  /\ [][(a_pc = "write" /\ a_pc' = "teardown") =>
          (g_stats' = av_stats_add_drop(g_stats, 1) /\ g_stop' = g_stop)]_vars
  /\ [][(v_pc = "process" /\ v_pc' = "qbuf" /\ vid'.ret # 0) =>
          /\ g_stats' = av_stats_add_drop(g_stats, 1 + obs'.gap_drops - obs.gap_drops)
          /\ g_stop' = g_stop]_vars
  /\ [][(v_pc = "qbuf" /\ v_pc' # v_pc) =>
          (v_pc' = "loop" /\ g_stats' = g_stats /\ g_stop' = g_stop)]_vars
  /\ [][(v_pc = "dqbuf" /\ v_pc' = "loop") =>
          (g_stats' = g_stats /\ g_stop' = g_stop /\ obs'.dq = obs.dq)]_vars

\* C8 witness: the video worker is processing a second frame after the encode
\* of its first failed, the audio worker has returned after a write error,
\* and the stop flag is still 0.
C8_Witness ==
  /\ v_pc = "process" /\ obs.dq = 2 /\ obs.enc_fail = 1
  /\ a_pc = "done" /\ obs.a_short = 1
  /\ g_stop = 0

\* C8 as stated: after a stage failure the worker processes no further frame
\* or chunk.
C8_FailureFatal ==
  /\ obs.enc_fail >= 1 => v_pc \notin {"dqbuf", "process"}
  /\ obs.a_short >= 1 => a_pc \notin {"read", "write"}

\* C9 (amended): a worker whose sink open fails returns without having
\* dequeued or read anything, with what it had opened closed (the video
\* capture had been opened and started).  The video worker's failure leaves
\* the stop flag alone; after the audio worker's failure main sets it, which
\* stops the video worker.
C9_SinkOpenFailure ==
  /\ InLog(obs.v_log, "sink_open_fail") =>
       /\ v_pc = "done" /\ obs.dq = 0
       /\ ~vid.cap_open /\ ~vid.cap_streaming /\ vid.enc = EncNone
       /\ obs.v_log = <<"cap_open", "cap_start", "enc_init", "sink_open_fail",
                        "enc_deinit", "cap_close">>
       /\ (NoExternalStop /\ ~obs.audio_stop) => g_stop = 0
  /\ InLog(obs.a_log, "fopen_fail") =>
       /\ a_pc = "done" /\ obs.a_reads = 0 /\ ~aud.ac_open
       /\ main_pc \in {"join_v", "join_s", "join_t", "exit"} => g_stop = 1

\* C9 witness: unlimited duration, no signal: the audio output could not be
\* opened, main set the flag, and the video worker, which had dequeued a
\* frame, has returned.
C9_Witness ==
  /\ InLog(obs.a_log, "fopen_fail") /\ obs.audio_stop
  /\ cfg.duration_sec = 0 /\ NoExternalStop
  /\ obs.dq >= 1 /\ v_pc = "done"

\* C9 as stated: after a sink open failure the capture of that stream was
\* never started, and the other worker is not stopped.
C9_OtherUnaffected ==
  /\ InLog(obs.v_log, "sink_open_fail") => ~InLog(obs.v_log, "cap_start")
  /\ (InLog(obs.a_log, "fopen_fail") /\ NoExternalStop) => g_stop = 0

\* C10: a short sink write advances no success counter: in the video worker
\* the frame and encoded-byte counters keep their values, in the audio worker
\* the written total and the chunk counter keep theirs; the dropped-unit
\* counter is increased by 1 for the failure (beside the frame's gap drops).
C10_ShortWrite ==
  /\ [][(v_pc = "process" /\ v_pc' = "qbuf" /\ vid'.req > 0 /\ vid'.persisted < vid'.req) =>
          /\ vid'.ret # 0
          /\ g_stats' = av_stats_add_drop(g_stats, 1 + obs'.gap_drops - obs.gap_drops)]_vars
  /\ [][(a_pc = "write" /\ a_pc' # a_pc /\ obs'.a_short > obs.a_short) =>
          /\ aud'.written = aud.written
          /\ g_stats' = av_stats_add_drop(g_stats, 1)]_vars

\* C10 witness: the sink persisted 3 of the 5 bytes of a packet, and an audio
\* write was short too.
C10_Witness ==
  /\ v_pc = "qbuf" /\ vid.req = 5 /\ vid.persisted = 3
  /\ obs.a_short >= 1

\* C11: after each video loop iteration the packet bytes that have reached
\* the video sink are at most the value of the encoded-bytes counter, also
\* when sink writes failed or were short.
C11_SinkBytesCounted ==
  v_pc \in {"loop", "dqbuf", "teardown", "done"} =>
    obs.v_sink_bytes <= g_stats.enc_bytes

\* the worker's Opening stage failed
VideoOpenFailed ==
  \/ InLog(obs.v_log, "cap_open_fail")
  \/ InLog(obs.v_log, "enc_init_fail")
  \/ InLog(obs.v_log, "sink_open_fail")

AudioOpenFailed ==
  \/ InLog(obs.a_log, "cap_open_fail")
  \/ InLog(obs.a_log, "fopen_fail")
  \/ InLog(obs.a_log, "malloc_fail")

\* C12: a worker whose Opening step fails records exactly one dropped unit on
\* that step, has closed what it had opened in reverse order of acquisition
\* (video: encoder, then capture; audio: file, then capture), has not entered
\* its loop, and has returned.
C12_OpeningFailure ==
  /\ [](VideoOpenFailed =>
         /\ v_pc = "done" /\ obs.dq = 0 /\ vid.frames = 0
         /\ ~vid.cap_open /\ ~vid.cap_streaming /\ ~vid.sink.file_fp
         /\ InLog(obs.v_log, "sink_open_fail") => vid.enc = EncNone
         /\ obs.v_log \in
              {<<"cap_open_fail">>,
               <<"cap_open", "cap_start", "enc_init_fail", "cap_close">>,
               <<"cap_open", "cap_start", "enc_init", "sink_open_fail",
                 "enc_deinit", "cap_close">>})
  /\ [](AudioOpenFailed =>
         /\ a_pc = "done" /\ obs.a_reads = 0 /\ obs.a_file_bytes = 0
         /\ ~aud.ac_open /\ ~aud.af_open /\ ~aud.buf
         /\ obs.a_log \in
              {<<"cap_open_fail">>,
               <<"cap_open", "fopen_fail", "cap_close">>,
               <<"cap_open", "fopen", "malloc_fail", "fclose", "cap_close">>})
  /\ [][(v_pc \in {"open_cap", "init_enc", "open_sink"} /\ v_pc' = "done") =>
          g_stats' = av_stats_add_drop(g_stats, 1)]_vars
  /\ [][(a_pc \in {"open_cap", "fopen", "malloc"} /\ a_pc' = "done") =>
          g_stats' = av_stats_add_drop(g_stats, 1)]_vars
  /\ [][(v_pc \in {"open_cap", "init_enc", "open_sink"} /\ v_pc' # v_pc
          /\ v_pc' # "done") => g_stats' = g_stats]_vars

\* C12 witness: the video worker's sink open failed and the audio worker's
\* buffer allocation failed; each recorded one dropped unit and returned.
C12_Witness ==
  /\ InLog(obs.v_log, "sink_open_fail") /\ v_pc = "done"
  /\ InLog(obs.a_log, "malloc_fail") /\ a_pc = "done"
  /\ g_stats.drop = 2

\* C13: a worker that leaves its loop, for any reason, closes its sink, then
\* its encoder (video), then its capture source, each once: nothing is
\* closed before teardown, teardown is the only way out of the loop, and
\* after it the worker processes nothing.
C13_TeardownOrder ==
  /\ [](VideoInLoop =>
         /\ vid.cap_open /\ EncValid(vid.enc) /\ vid.sink.file_fp
         /\ obs.v_log = <<"cap_open", "cap_start", "enc_init", "sink_open">>)
  /\ []((v_pc = "done" /\ ~VideoOpenFailed) =>
         /\ ~vid.cap_open /\ vid.enc = EncNone /\ ~vid.sink.file_fp
         /\ vid.cap_held = {}
         /\ obs.v_log = <<"cap_open", "cap_start", "enc_init", "sink_open",
                          "sink_close", "enc_deinit", "cap_close">>)
  /\ [](AudioInLoop =>
         /\ aud.ac_open /\ aud.af_open /\ aud.buf
         /\ obs.a_log = <<"cap_open", "fopen", "malloc">>)
  /\ []((a_pc = "done" /\ ~AudioOpenFailed) =>
         /\ ~aud.ac_open /\ ~aud.af_open /\ ~aud.buf
         /\ obs.a_log = <<"cap_open", "fopen", "malloc", "free", "fclose", "cap_close">>)
  /\ [][(VideoInLoop /\ v_pc' # v_pc) =>
          IF v_pc = "teardown" THEN v_pc' = "done" ELSE VideoInLoop']_vars
  /\ [][(AudioInLoop /\ a_pc' # a_pc) =>
          IF a_pc = "teardown" THEN a_pc' = "done" ELSE AudioInLoop']_vars
  /\ [][v_pc = "done" =>
          (v_pc' = "done" /\ vid' = vid /\ obs'.v_log = obs.v_log /\ obs'.dq = obs.dq
           /\ obs'.v_sink_bytes = obs.v_sink_bytes)]_vars
  /\ [][a_pc = "done" =>
          (a_pc' = "done" /\ aud' = aud /\ obs'.a_log = obs.a_log
           /\ obs'.a_reads = obs.a_reads /\ obs'.a_file_bytes = obs.a_file_bytes)]_vars

\* C13 witness: the video worker left its loop on its frame limit with the
\* stop flag unset, the audio worker left its loop on a write failure, and
\* both have closed everything.
C13_Witness ==
  /\ v_pc = "done" /\ vid.frames_target > 0 /\ vid.frames = vid.frames_target
  /\ a_pc = "done" /\ obs.a_short = 1
  /\ g_stop = 0
  /\ Len(obs.v_log) = 7 /\ Len(obs.a_log) = 6

\* the thread at position pc was never created or has returned
Returned(pc) == pc \in {"none", "done"}

MainFailPath ==
  main_pc \in {"tfail_join_s", "vfail_join_s", "vfail_join_t",
               "afail_join_v", "afail_join_s", "afail_join_t"}

\* C14: main returns only after every thread it created (reporter, timer
\* when duration > 0, video worker, audio worker) has returned; on every
\* path where creating a later thread failed the stop flag is set before
\* main waits, and main then returns -1.
C14_MainJoinsAll ==
  /\ [](main_pc = "exit" =>
         (Returned(s_pc) /\ Returned(t_pc) /\ Returned(v_pc) /\ Returned(a_pc)))
  /\ [](t_pc # "none" => cfg.duration_sec > 0)
  /\ [](MainFailPath => (g_stop = 1 /\ obs.create_failed))
  /\ []((main_pc = "exit" /\ obs.create_failed) => obs.main_ret = -1)
  /\ [][(main_pc' = "exit" /\ main_pc \notin {"exit", "parse", "create_s"}) =>
          (s_pc = "done" /\ Returned(v_pc) /\ Returned(a_pc))]_vars

\* C14 witness: creating the audio thread failed while the video worker was
\* running; main has returned after the video worker, the reporter and the
\* timer returned.
C14_Witness ==
  /\ main_pc = "exit" /\ obs.create_failed /\ a_pc = "none"
  /\ v_pc = "done" /\ obs.dq >= 1
  /\ s_pc = "done" /\ t_pc = "done"

\* a configuration error: invalid geometry, a capture device that cannot be
\* opened, or an output target that cannot be opened
ConfigError ==
  \/ ParseArgsRet(cfg.width, cfg.height) # 0
  \/ InLog(obs.v_log, "cap_open_fail") \/ InLog(obs.a_log, "cap_open_fail")
  \/ InLog(obs.v_log, "sink_open_fail") \/ InLog(obs.a_log, "fopen_fail")

\* C15: once a configuration error has been detected no worker has started
\* capturing or starts it afterwards, and the process exits with a non-zero
\* status.
C15_ConfigErrorFailFast ==
  /\ ConfigError =>
       (~InLog(obs.v_log, "cap_start") /\ obs.dq = 0 /\ obs.a_reads = 0)
  /\ (ConfigError /\ main_pc = "exit") => obs.main_ret # 0

\* C16: when opening the encoder failed, at whichever step, and the video
\* worker has returned, the encoder holds no context, no buffer group and no
\* input frame buffer.
C16_EncoderInitReleases ==
  InLog(obs.v_log, "enc_init_fail") => (v_pc = "done" /\ vid.enc = EncNone)

VideoLeftLoop == v_pc \in {"teardown", "done"} /\ ~VideoOpenFailed

AudioLeftLoop == a_pc \in {"teardown", "done"} /\ ~AudioOpenFailed

\* C17 (amended): with duration 0 no timer thread is started, the frame
\* target is 0 (unlimited) and the byte limit is the largest size_t value;
\* a worker leaves its loop at the loop head only with the stop flag set,
\* the audio worker otherwise only on a write failure; the flag is set by a
\* signal, by main after the audio worker returned, or by main after a
\* failed thread creation.
C17_NoCeiling ==
  /\ \A f \in {0, 1, MaxFrames, IntMax} : VideoContinue(0, 0, f)
  /\ \A w \in {0, 1, MaxReads, SizeMax - 1} : AudioContinue(0, w, TotalBytes(2, 1, 0))
  /\ [](cfg.duration_sec = 0 =>
         /\ t_pc = "none"
         /\ VideoInLoop => vid.frames_target = 0
         /\ AudioInLoop => aud.total_bytes = SizeMax
         /\ g_stop = 1 => (obs.signalled \/ obs.audio_stop \/ obs.create_failed)
         /\ VideoLeftLoop => g_stop = 1
         /\ AudioLeftLoop => (g_stop = 1 \/ obs.a_short >= 1))
  /\ [][(cfg.duration_sec = 0 /\ v_pc = "loop" /\ v_pc' = "teardown") => g_stop = 1]_vars
  /\ [][(cfg.duration_sec = 0 /\ a_pc = "loop" /\ a_pc' = "teardown") => g_stop = 1]_vars
  /\ [][(cfg.duration_sec = 0 /\ a_pc = "write" /\ a_pc' = "teardown") =>
          obs'.a_short = obs.a_short + 1]_vars

\* C17 witness: duration 0, the video worker has processed MaxFrames frames
\* and the audio worker MaxReads chunks, the stop flag is unset and both are
\* in a further iteration.
C17_Witness ==
  /\ cfg.duration_sec = 0 /\ g_stop = 0
  /\ vid.frames = MaxFrames /\ v_pc = "dqbuf"
  /\ g_stats.audio_chunks = MaxReads /\ a_pc = "read"

\* C17 as stated: with duration 0 a worker that has left its loop has done
\* so after an external stop signal.
C17_OnlyExternalStop ==
  (cfg.duration_sec = 0 /\ (VideoLeftLoop \/ AudioLeftLoop)) => obs.signalled

\* C18: once the stop flag is set, a loop-head check of the video worker,
\* the audio worker or the reporter made with the flag set ends the loop (no
\* new dequeue, read or report follows it); a reporter that was past its
\* check emits one report and then checks; and each of the three, once
\* created, eventually returns.
C18_StopObserved ==
  /\ [][(g_stop = 1 /\ v_pc = "loop" /\ v_pc' # v_pc) => v_pc' = "teardown"]_vars
  /\ [][(g_stop = 1 /\ a_pc = "loop" /\ a_pc' # a_pc) => a_pc' = "teardown"]_vars
  /\ [][(g_stop = 1 /\ s_pc = "check" /\ s_pc' # s_pc) => s_pc' = "done"]_vars
  /\ [][(g_stop = 1 /\ s_pc = "tick" /\ s_pc' # s_pc) =>
          (s_pc' = "check" /\ g_stop' = 1)]_vars
  /\ (g_stop = 1 /\ v_pc # "none") ~> (v_pc = "done")
  /\ (g_stop = 1 /\ a_pc # "none") ~> (a_pc = "done")
  /\ (g_stop = 1 /\ s_pc # "none") ~> (s_pc = "done")

\* C18 witness: a signal set the flag while both workers had processed
\* input; the video worker, the audio worker and the reporter have returned
\* and main is still waiting for the audio worker.
C18_Witness ==
  /\ g_stop = 1 /\ obs.signalled /\ ~obs.timer_fired /\ main_pc = "join_a"
  /\ v_pc = "done" /\ obs.dq >= 1
  /\ a_pc = "done" /\ obs.a_reads >= 1 /\ obs.a_short = 0
  /\ s_pc = "done"

\* the sink's open succeeded and a write to it has just returned
SinkWritten ==
  v_pc = "sink_ready" /\ InLog(obs.v_log, "sink_open") /\ vid.frames >= 1

\* C19 (amended): on a file sink whose open succeeded, write returns success
\* exactly when the request is not empty and all requested bytes were
\* persisted; a write that persists fewer bytes returns an error.  On the
\* sink of type NONE, whose open succeeds too, write returns success for
\* every non-empty request and persists nothing.  The open of the pipe
\* variant never succeeds.
C19_FileWriteAllOrError ==
  /\ (SinkWritten /\ vid.sink.type = "FILE") =>
       /\ vid.ret = 0 <=> (vid.req > 0 /\ vid.persisted = vid.req)
       /\ vid.persisted < vid.req => vid.ret = -1
  /\ (SinkWritten /\ vid.sink.type = "NONE" /\ vid.req > 0) =>
       (vid.ret = 0 /\ vid.persisted = 0)
  /\ InLog(obs.v_log, "sink_open") => vid.sink.type # "PIPE_FFMPEG"
  /\ (vid.sink.type = "NONE" /\ v_pc \in {"sink_ready", "sink_closed"}) =>
       InLog(obs.v_log, "sink_open")

\* C19 witness: on an opened file sink one write was short (an error) and a
\* later one persisted all of its MaxLen bytes (success).
C19_Witness ==
  /\ SinkWritten /\ vid.sink.type = "FILE"
  /\ vid.req = MaxLen /\ vid.persisted = MaxLen /\ vid.ret = 0
  /\ obs.v_sink_bytes = MaxLen + 1 /\ vid.frames = 2

\* C19 as stated: on every sink whose open succeeded, a write returns success
\* only if all requested bytes were persisted.
C19_WriteAllOrError ==
  SinkWritten => (vid.ret = 0 => vid.persisted = vid.req)

\* C20: after the copy step of encode, for a raw payload of n > 0 bytes and
\* a scratch buffer of capacity c with any previous content, the buffer
\* holds the first min(n, c) bytes of the payload followed by
\* c - min(n, c) zero bytes.
C20_CopyZeroFills ==
  v_pc = "enc_copied" =>
    LET n == vid.len
        c == Len(vid.scratch)
        m == IF n < c THEN n ELSE c
    IN  /\ n > 0 /\ c = Len(obs.scratch_before)
        /\ SubSeq(vid.scratch, 1, m) = SubSeq(vid.data, 1, m)
        /\ \A i \in (m + 1) .. c : vid.scratch[i] = 0

\* C20 witness: a one-byte frame was copied into a buffer of MaxCap bytes
\* that was full of non-zero bytes of an earlier, longer frame.
C20_Witness ==
  /\ v_pc = "enc_copied" /\ vid.len = 1 /\ vid.data = <<1>>
  /\ Len(vid.scratch) = MaxCap
  /\ \A i \in 1 .. MaxCap : obs.scratch_before[i] = 1
  /\ vid.scratch[1] = 1 /\ vid.scratch[MaxCap] = 0

\* C21: every frame the video worker dequeues causes exactly one of two
\* updates before its buffer is requeued: the video-frame counter +1 with
\* the encoded-bytes counter increased by the bytes written (encode returned
\* success; 0 bytes when there was no packet), or the dropped-unit counter
\* +1 (encode returned failure), beside the frame's gap drops; the requeue
\* changes no counter; so at every loop head
\* frames = video frames recorded + encode-failure drops.
C21_FrameAccounting ==
  /\ [](v_pc \in {"loop", "dqbuf", "teardown"} =>
         /\ vid.frames = g_stats.video_frames + obs.enc_fail
         /\ vid.frames = obs.q
         /\ g_stats.drop = obs.gap_drops + obs.enc_fail)
  /\ [][(v_pc = "process" /\ v_pc' = "qbuf") =>
          LET gap == obs'.gap_drops - obs.gap_drops
          IN  \/ /\ vid'.ret = 0
                 /\ g_stats'.video_frames = g_stats.video_frames + 1
                 /\ g_stats'.enc_bytes = g_stats.enc_bytes + vid'.persisted
                 /\ g_stats'.drop = g_stats.drop + gap
                 /\ obs'.enc_fail = obs.enc_fail
              \/ /\ vid'.ret # 0
                 /\ g_stats'.video_frames = g_stats.video_frames
                 /\ g_stats'.enc_bytes = g_stats.enc_bytes
                 /\ g_stats'.drop = g_stats.drop + gap + 1
                 /\ obs'.enc_fail = obs.enc_fail + 1]_vars
  /\ [][(v_pc = "qbuf" /\ v_pc' # v_pc) =>
          (g_stats' = g_stats /\ vid'.frames = vid.frames + 1)]_vars

\* C21 witness: at the loop head after three frames: one encode failed, one
\* wrote a packet of 5 bytes, one returned success with no packet.
C21_Witness ==
  /\ v_pc = "loop" /\ vid.frames = 3
  /\ obs.enc_fail = 1 /\ g_stats.video_frames = 2 /\ g_stats.enc_bytes = 5

\* C22: for every non-zero duration, and also when no frame and no sample
\* is ever delivered and no signal arrives, the single-shot timer sets the
\* stop flag once and returns, every thread eventually returns and main
\* returns.
C22_TimerTerminates ==
  /\ (cfg.duration_sec > 0) ~>
       (main_pc = "exit" /\ Returned(s_pc) /\ Returned(t_pc)
        /\ Returned(v_pc) /\ Returned(a_pc))
  /\ (t_pc = "sleep") ~> (t_pc = "done" /\ g_stop = 1)
  /\ [][(t_pc = "sleep" /\ t_pc' # t_pc) =>
          (t_pc' = "done" /\ g_stop' = 1 /\ obs'.timer_fired)]_vars
  /\ [][t_pc = "done" => t_pc' = "done"]_vars
  /\ [](obs.timer_fired => (t_pc = "done" /\ g_stop = 1))

\* C22 witness: non-zero duration, no signal, no failed thread creation; no
\* frame was dequeued and no sample read, both workers had entered their
\* loops; the timer fired and main has returned 0 after all four threads.
C22_Witness ==
  /\ cfg.duration_sec > 0 /\ ~obs.signalled /\ ~obs.create_failed
  /\ obs.timer_fired /\ obs.dq = 0 /\ obs.a_reads = 0
  /\ VideoLeftLoop /\ AudioLeftLoop
  /\ s_pc = "done" /\ t_pc = "done" /\ v_pc = "done" /\ a_pc = "done"
  /\ main_pc = "exit" /\ obs.main_ret = 0

=============================================================================
